---- MODULE Spec2Model ----
(***************************************************************************)
(* mishards: the search path of ServiceHandler (service_handler.py).       *)
(* Search validates topk/nprobe, fetches and caches the table descriptor,  *)
(* asks the router for a routing plan, runs one sub-query task per address *)
(* on a per-request thread pool, and merges the partial top-K results.     *)
(***************************************************************************)
EXTENDS Integers, Sequences, FiniteSets, TLC

\* ------------------------------------------------------------------------
\* Program constants and bounds of the model
\* ------------------------------------------------------------------------
MAX_NPROBE == 2048
MAX_TOPK == 2048

\* A block handed to _do_merge directly holds at most MaxRows rows.
MaxRows == 2
\* _do_merge is called directly with topk in 1..MaxK (and MAX_TOPK).
MaxK == 3
\* Largest worker-pool size the handler is constructed with.
MaxWorkers == 2
\* Number of administrative operations issued in one behaviour.
MaxAdmin == 2

Reqs == {"r1", "r2"}
TableNames == {"t1", "t2"}
Addrs == {"a1", "a2"}
Metrics == {"L2", "IP"}

\* ------------------------------------------------------------------------
\* Values
\* ------------------------------------------------------------------------
Success == [error_code |-> "SUCCESS", reason |-> "Success"]
NoStatus == [error_code |-> "NONE", reason |-> ""]
NoMeta == [table_name |-> "", metric_type |-> "NONE"]
NoResp == [status |-> NoStatus, topk_query_result |-> << >>]
NoReq == [table_name |-> "", topk |-> 0, nprobe |-> 0, nq |-> 0]

\* ret of search_vectors_in_files: a response object carrying blocks...
Response(blocks) ==
  [is_tuple |-> FALSE, status |-> Success, topk_query_result |-> blocks]
\* ... or the client's error shape, the tuple (status, []).
ErrorTuple(st) ==
  [is_tuple |-> TRUE, status |-> st, topk_query_result |-> << >>]

Min(a, b) == IF a <= b THEN a ELSE b
\* s[:n] for n >= 0
Take(s, n) == SubSeq(s, 1, Min(Len(s), n))

\* ------------------------------------------------------------------------
\* _do_merge
\* ------------------------------------------------------------------------
\* Faulty variant: a row also goes before the rows of equal distance that preceded it
BeforeOrEqual(x, y, reverse) ==
  IF reverse THEN x.distance >= y.distance ELSE x.distance <= y.distance

\* x sorts strictly before y under key=distance, reverse=reverse
Before(x, y, reverse) ==
  IF reverse THEN x.distance > y.distance ELSE x.distance < y.distance

\* Insert x, which followed every row of the sorted s in the input, keeping
\* rows of equal distance in input order (sorted() is stable, also reversed).
RECURSIVE InsertRow(_, _, _)
InsertRow(s, x, reverse) ==
  IF s = << >> THEN << x >>
  ELSE IF Before(x, s[Len(s)], reverse)
       THEN Append(InsertRow(SubSeq(s, 1, Len(s) - 1), x, reverse), s[Len(s)])
       ELSE Append(s, x)

\* sorted(rows, key=lambda x: x.distance, reverse=reverse)
RECURSIVE Sorted(_, _)
Sorted(rows, reverse) ==
  IF rows = << >> THEN << >>
  ELSE InsertRow(Sorted(SubSeq(rows, 1, Len(rows) - 1), reverse),
                 rows[Len(rows)], reverse)

\* Faulty variant: a response's block replaces the rows merged so far
MergeBlocksReplace(request_results, blocks, topk, reverse) ==
  LET old == DOMAIN request_results
      new == 0 .. (Len(blocks) - 1)
  IN [p \in old \cup new |->
        IF p \in new
        THEN Take(Sorted(blocks[p + 1], reverse), topk)
        ELSE request_results[p]]

\* One pass of the inner loop (lines 45-52) over a response's blocks:
\* request_results is the defaultdict, here a function on 0..n-1.
MergeBlocks(request_results, blocks, topk, reverse) ==
  LET old == DOMAIN request_results
      new == 0 .. (Len(blocks) - 1)
  IN [p \in old \cup new |->
        IF p \in new
        THEN Take(Sorted((IF p \in old THEN request_results[p] ELSE << >>)
                           \o blocks[p + 1], reverse), topk)
        ELSE request_results[p]]

\* sorted(request_results.items()) and the blocks built from it (57-62)
RECURSIVE ItemsSorted(_, _)
ItemsSorted(request_results, keys) ==
  IF keys = {} THEN << >>
  ELSE LET k == CHOOSE x \in keys : \A y \in keys : x <= y
       IN << request_results[k] >> \o ItemsSorted(request_results, keys \ {k})

\* Faulty variant: on an error partial, the rows merged so far are returned with it
RECURSIVE MergeLoopKeepsRows(_, _, _, _, _)
MergeLoopKeepsRows(files_n_topk_results, i, request_results, topk, reverse) ==
  IF i > Len(files_n_topk_results)
  THEN [status |-> Success,
        topk_query_result |->
          ItemsSorted(request_results, DOMAIN request_results)]
  ELSE LET files_collection == files_n_topk_results[i]
       IN IF files_collection.is_tuple
          THEN [status |-> files_collection.status,
                topk_query_result |->
                  ItemsSorted(request_results, DOMAIN request_results)]
          ELSE MergeLoopKeepsRows(files_n_topk_results, i + 1,
                                  MergeBlocks(request_results,
                                              files_collection.topk_query_result,
                                              topk, reverse),
                                  topk, reverse)

\* The loop of lines 41-52 from partial i on; returns (status, results).
RECURSIVE MergeLoop(_, _, _, _, _)
MergeLoop(files_n_topk_results, i, request_results, topk, reverse) ==
  IF i > Len(files_n_topk_results)
  THEN [status |-> Success,
        topk_query_result |->
          ItemsSorted(request_results, DOMAIN request_results)]
  ELSE LET files_collection == files_n_topk_results[i]
       IN IF files_collection.is_tuple
          THEN [status |-> files_collection.status, topk_query_result |-> << >>]
          ELSE MergeLoop(files_n_topk_results, i + 1,
                         MergeBlocks(request_results,
                                     files_collection.topk_query_result,
                                     topk, reverse),
                         topk, reverse)

EmptyDict == [p \in {} |-> << >>]

\* Faulty variant: an empty collection is reported as a failure
do_mergeEmptyFails(files_n_topk_results, topk, reverse) ==
  IF files_n_topk_results = << >>
  THEN [status |-> [error_code |-> "UNEXPECTED_ERROR", reason |-> "empty"],
        topk_query_result |-> << >>]
  ELSE MergeLoop(files_n_topk_results, 1, EmptyDict, topk, reverse)

do_merge(files_n_topk_results, topk, reverse) ==
  IF files_n_topk_results = << >>
  THEN [status |-> Success, topk_query_result |-> << >>]
  ELSE MergeLoop(files_n_topk_results, 1, EmptyDict, topk, reverse)

\* ------------------------------------------------------------------------
\* State
\* ------------------------------------------------------------------------
VARIABLES
  table_meta,        \* self.table_meta: table name -> cached descriptor
  max_workers,       \* self.max_workers
  catalog,           \* backend: table name -> descriptor (NoMeta: no table)
  shardDists,        \* backend: the distances each shard holds per query
  adminCount,        \* administrative operations issued so far
  adminReply,        \* reply of the last administrative operation
  pc,                \* per request: position in Search
  request,           \* per request: table_name, topk, nprobe, nq
  lookup,            \* per request: (status, info) of describe_table
  meta,              \* per request: local table_meta
  routing,           \* per request: addresses of the plan, in dict order
  task,              \* per request: state of the task of each address
  taskRet,           \* per request: what each address's sub-query returned
  taskArgs,          \* per request: the arguments each task was submitted with
  searched,          \* per request: the search calls the backends received
  all_topk_results,  \* per request: the shared collection
  resp,              \* per request: the TopKQueryResultList returned
  exc,               \* per request: the exception Search raised
  canceled,          \* per request: the caller's context is canceled
  calls,             \* per request: backend calls issued on its behalf
  m_in, m_topk, m_reverse, m_out, m_pc   \* a direct call of _do_merge

vars == << table_meta, max_workers, catalog, shardDists, adminCount,
           adminReply, pc, request, lookup, meta, routing, task, taskRet,
           taskArgs, searched, all_topk_results, resp, exc, canceled, calls,
           m_in, m_topk, m_reverse, m_out, m_pc >>

handlerVars == << table_meta, max_workers >>
backendVars == << catalog, shardDists >>
adminVars == << adminCount, adminReply >>
reqVars == << pc, request, lookup, meta, routing, task, taskRet,
              taskArgs, searched, all_topk_results, resp, exc, canceled, calls >>
mergeVars == << m_in, m_topk, m_reverse, m_out, m_pc >>

\* ------------------------------------------------------------------------
\* The backend (external collaborators, as far as Search uses them)
\* ------------------------------------------------------------------------
Descriptor(t, m) == [table_name |-> t, metric_type |-> m]

\* Distances: integers stand for the floats (NaN is not modelled).
Dists == {1, 2}
\* Sequences of distances of length <= n
DistSeqs(n) == UNION {[1..k -> Dists] : k \in 0..n}

AddrNo(a) == IF a = "a1" THEN 1 ELSE 2
\* Row ids are unique over shards, query positions and ranks.
RowId(a, p, i) == 100 * AddrNo(a) + 10 * p + i

\* The rows shard a holds for query position p, in the shard's order.
ShardBlock(a, p) ==
  [i \in 1..Len(shardDists[a]) |->
     [id |-> RowId(a, p, i), distance |-> shardDists[a][i]]]

\* What search_vectors_in_files(lazy_=True) hands back in each mode:
\* "ok" nq blocks of at most topk rows, "short" one block fewer,
\* "tuple" the client's error tuple (status, []).
ShardStatus(a) == [error_code |-> "UNAVAILABLE", reason |-> a]
search_vectors_in_files(a, mode, topk, nq) ==
  CASE mode = "ok" ->
         Response([p \in 1..nq |-> Take(ShardBlock(a, p), topk)])
    [] mode = "short" ->
         Response([p \in 1..(nq - 1) |-> Take(ShardBlock(a, p), topk)])
    [] OTHER -> ErrorTuple(ShardStatus(a))

\* describe_table: (status, info)
NotFoundStatus == [error_code |-> "TABLE_NOT_EXISTS", reason |-> "not found"]
UnavailableStatus == [error_code |-> "UNAVAILABLE", reason |-> "unreachable"]
NoLookup == [status |-> NoStatus, info |-> NoMeta]
describe_table(t, up) ==
  IF ~up THEN [status |-> UnavailableStatus, info |-> NoMeta]
  ELSE IF catalog[t] = NoMeta THEN [status |-> NotFoundStatus, info |-> NoMeta]
  ELSE [status |-> Success, info |-> catalog[t]]

OK(status) == status.error_code = "SUCCESS"

\* Routing plans: sequences of distinct addresses (the dict's key order)
Plans ==
  {s \in UNION {[1..n -> Addrs] : n \in 0..Cardinality(Addrs)} :
     \A i, j \in 1..Len(s) : i # j => s[i] # s[j]}

\* The routing plan's entry for an address: {'table_id': ..., 'file_ids': [...]}
QueryParams(t, a) == [table_id |-> t, file_ids |-> << AddrNo(a) >>]
\* The arguments of search(addr, query_params, ...)
NoArgs == [addr |-> "", query_params |-> [table_id |-> "", file_ids |-> << >>]]

NoCalls == [describe |-> 0, routing |-> 0, conn |-> 0, search |-> 0]

\* ------------------------------------------------------------------------
\* Search (lines 233-294)
\* ------------------------------------------------------------------------
Raise(r, e) ==
  /\ pc' = [pc EXCEPT ![r] = "failed"]
  /\ exc' = [exc EXCEPT ![r] = e]

\* Faulty variant: the upper bounds made exclusive
ValidateExclusive(topk, nprobe) ==
  IF nprobe >= MAX_NPROBE \/ nprobe <= 0 THEN "InvalidArgumentError"
  ELSE IF topk >= MAX_TOPK \/ topk <= 0 THEN "InvalidTopKError"
  ELSE ""

\* The bound checks of lines 246-252, in the code's order: the exception
\* raised, "" when the request passes.
Validate(topk, nprobe) ==
  IF nprobe > MAX_NPROBE \/ nprobe <= 0 THEN "InvalidArgumentError"
  ELSE IF topk > MAX_TOPK \/ topk <= 0 THEN "InvalidTopKError"
  ELSE ""

\* Lines 236-254: read the request, check the bounds, look into the cache.
SearchReceive(r, t, topk, nprobe, nq) ==
  /\ pc[r] = "idle"
  /\ request' = [request EXCEPT ![r] =
       [table_name |-> t, topk |-> topk, nprobe |-> nprobe, nq |-> nq]]
  /\ IF Validate(topk, nprobe) # ""
     THEN /\ Raise(r, Validate(topk, nprobe))
          /\ UNCHANGED meta
     ELSE /\ meta' = [meta EXCEPT ![r] = table_meta[t]]
          /\ pc' = [pc EXCEPT ![r] =
               IF table_meta[t] = NoMeta THEN "describe" ELSE "routing"]
          /\ UNCHANGED exc
  /\ UNCHANGED << handlerVars, backendVars, adminVars, lookup, routing, task,
                  taskRet, taskArgs,
                  searched, all_topk_results, resp, canceled, calls, mergeVars >>

\* Lines 257-258: the describe_table call on a cache miss.
SearchDescribe(r, up) ==
  /\ pc[r] = "describe"
  /\ lookup' = [lookup EXCEPT ![r] = describe_table(request[r].table_name, up)]
  /\ calls' = [calls EXCEPT ![r].describe = @ + 1]
  /\ pc' = [pc EXCEPT ![r] = "cache"]
  /\ UNCHANGED << handlerVars, backendVars, adminVars, request, meta, routing,
                  task, taskRet, taskArgs,
                  searched, all_topk_results, resp, exc, canceled,
                  mergeVars >>

\* Faulty variant: the failed lookup is not raised; Search goes on with its info
SearchCacheNoRaise(r) ==
  /\ pc[r] = "cache"
  /\ table_meta' =
       [table_meta EXCEPT ![request[r].table_name] = lookup[r].info]
  /\ meta' = [meta EXCEPT ![r] = lookup[r].info]
  /\ pc' = [pc EXCEPT ![r] = "routing"]
  /\ UNCHANGED << max_workers, backendVars, adminVars, request, lookup,
                  routing, task, taskRet, taskArgs,
                  searched, all_topk_results, resp, exc,
                  canceled, calls, mergeVars >>

\* Faulty variant: an entry already in the cache is kept (the first writer wins)
SearchCacheKeepsFirst(r) ==
  /\ pc[r] = "cache"
  /\ IF ~OK(lookup[r].status)
     THEN /\ Raise(r, "TableNotFoundError")
          /\ UNCHANGED << table_meta, meta >>
     ELSE /\ table_meta' =
               IF table_meta[request[r].table_name] = NoMeta
               THEN [table_meta EXCEPT
                       ![request[r].table_name] = lookup[r].info]
               ELSE table_meta
          /\ meta' = [meta EXCEPT ![r] = lookup[r].info]
          /\ pc' = [pc EXCEPT ![r] = "routing"]
          /\ UNCHANGED exc
  /\ UNCHANGED << max_workers, backendVars, adminVars, request, lookup,
                  routing, task, taskRet, taskArgs, searched,
                  all_topk_results, resp, canceled, calls, mergeVars >>

\* Lines 259-264: raise on a failed lookup, else fill the cache.
SearchCache(r) ==
  /\ pc[r] = "cache"
  /\ IF ~OK(lookup[r].status)
     THEN /\ Raise(r, "TableNotFoundError")
          /\ UNCHANGED << table_meta, meta >>
     ELSE /\ table_meta' =
               [table_meta EXCEPT ![request[r].table_name] = lookup[r].info]
          /\ meta' = [meta EXCEPT ![r] = lookup[r].info]
          /\ pc' = [pc EXCEPT ![r] = "routing"]
          /\ UNCHANGED exc
  /\ UNCHANGED << max_workers, backendVars, adminVars, request, lookup,
                  routing, task, taskRet, taskArgs,
                  searched, all_topk_results, resp, canceled,
                  calls, mergeVars >>

\* ------------------------------------------------------------------------
\* _do_query (lines 66-139)
\* ------------------------------------------------------------------------
InPlan(r, a) == \E i \in 1..Len(routing[r]) : routing[r][i] = a

\* Faulty variant: every task runs with the arguments of the plan's last entry
SearchRoutingLastArgs(r, plan) ==
  /\ pc[r] = "routing"
  /\ routing' = [routing EXCEPT ![r] = plan]
  /\ calls' = [calls EXCEPT ![r].routing = @ + 1]
  /\ task' = [task EXCEPT ![r] =
       [a \in Addrs |->
          IF \E i \in 1..Len(plan) : plan[i] = a THEN "queued" ELSE "none"]]
  /\ taskArgs' = [taskArgs EXCEPT ![r] =
       [a \in Addrs |->
          IF \E i \in 1..Len(plan) : plan[i] = a
          THEN [addr |-> plan[Len(plan)],
                query_params |->
                  QueryParams(request[r].table_name, plan[Len(plan)])]
          ELSE NoArgs]]
  /\ pc' = [pc EXCEPT ![r] = "dispatch"]
  /\ UNCHANGED << handlerVars, backendVars, adminVars, request, lookup, meta,
                  taskRet, searched, all_topk_results, resp, exc, canceled,
                  mergeVars >>

\* Lines 84-86 and 121-129: the router's plan, and one task submitted per
\* address with that entry's address and parameters, in the plan's order.
SearchRouting(r, plan) ==
  /\ pc[r] = "routing"
  /\ routing' = [routing EXCEPT ![r] = plan]
  /\ calls' = [calls EXCEPT ![r].routing = @ + 1]
  /\ task' = [task EXCEPT ![r] =
       [a \in Addrs |->
          IF \E i \in 1..Len(plan) : plan[i] = a THEN "queued" ELSE "none"]]
  /\ taskArgs' = [taskArgs EXCEPT ![r] =
       [a \in Addrs |->
          IF \E i \in 1..Len(plan) : plan[i] = a
          THEN [addr |-> a,
                query_params |-> QueryParams(request[r].table_name, a)]
          ELSE NoArgs]]
  /\ pc' = [pc EXCEPT ![r] = "dispatch"]
  /\ UNCHANGED << handlerVars, backendVars, adminVars, request, lookup, meta,
                  taskRet, searched, all_topk_results, resp, exc, canceled,
                  mergeVars >>

Running(r) == {a \in Addrs : task[r][a] = "running"}
\* The pool hands its queue to idle workers in submission order.
NextQueued(r, a) ==
  \E i \in 1..Len(routing[r]) :
    /\ routing[r][i] = a
    /\ task[r][a] = "queued"
    /\ \A j \in 1..(i - 1) : task[r][routing[r][j]] # "queued"

\* Faulty variant: a task starts whether or not a worker is free
TaskStartUnbounded(r, a, connected) ==
  /\ pc[r] = "dispatch"
  /\ NextQueued(r, a)
  /\ calls' = [calls EXCEPT ![r].conn = @ + 1]
  /\ task' = [task EXCEPT ![r][a] = IF connected THEN "running" ELSE "raised"]
  /\ UNCHANGED << handlerVars, backendVars, adminVars, pc, request, lookup,
                  meta, routing, taskRet, taskArgs, searched,
                  all_topk_results, resp, exc, canceled, mergeVars >>

\* Faulty variant: a task whose connection failed goes back to the queue
TaskStartRetry(r, a, connected) ==
  /\ pc[r] = "dispatch"
  /\ NextQueued(r, a)
  /\ Cardinality(Running(r)) < max_workers
  /\ calls' = [calls EXCEPT ![r].conn = @ + 1]
  /\ task' = [task EXCEPT ![r][a] = IF connected THEN "running" ELSE "queued"]
  /\ UNCHANGED << handlerVars, backendVars, adminVars, pc, request, lookup,
                  meta, routing, taskRet, taskArgs,
                  searched, all_topk_results, resp, exc,
                  canceled, mergeVars >>

\* A worker picks the task up; line 99 acquires the connection, which
\* raises when the router has none for the address.
TaskStart(r, a, connected) ==
  /\ pc[r] = "dispatch"
  /\ NextQueued(r, a)
  /\ Cardinality(Running(r)) < max_workers
  /\ calls' = [calls EXCEPT ![r].conn = @ + 1]
  /\ task' = [task EXCEPT ![r][a] = IF connected THEN "running" ELSE "raised"]
  /\ UNCHANGED << handlerVars, backendVars, adminVars, pc, request, lookup,
                  meta, routing, taskRet, taskArgs,
                  searched, all_topk_results, resp, exc,
                  canceled, mergeVars >>

\* Faulty variant: the collection is one list of the handler, shared by all requests
TaskFinishShared(r, a, mode) ==
  /\ pc[r] = "dispatch"
  /\ task[r][a] = "running"
  /\ LET ret == search_vectors_in_files(taskArgs[r][a].addr, mode,
                                        request[r].topk, request[r].nq)
     IN /\ all_topk_results' =
             [s \in Reqs |-> Append(all_topk_results[s], ret)]
        /\ taskRet' = [taskRet EXCEPT ![r][a] = ret]
  /\ searched' = [searched EXCEPT ![r] = @ \cup {taskArgs[r][a]}]
  /\ calls' = [calls EXCEPT ![r].search = @ + 1]
  /\ task' = [task EXCEPT ![r][a] = "done"]
  /\ UNCHANGED << handlerVars, backendVars, adminVars, pc, request, lookup,
                  meta, routing, taskArgs, resp, exc, canceled, mergeVars >>

\* Lines 107-117: the sub-query, sent over the connection of the task's
\* addr with the task's query_params, returns and its result is appended.
TaskFinish(r, a, mode) ==
  /\ pc[r] = "dispatch"
  /\ task[r][a] = "running"
  /\ LET ret == search_vectors_in_files(taskArgs[r][a].addr, mode,
                                        request[r].topk, request[r].nq)
     IN /\ all_topk_results' =
             [all_topk_results EXCEPT ![r] = Append(@, ret)]
        /\ taskRet' = [taskRet EXCEPT ![r][a] = ret]
  /\ searched' = [searched EXCEPT ![r] = @ \cup {taskArgs[r][a]}]
  /\ calls' = [calls EXCEPT ![r].search = @ + 1]
  /\ task' = [task EXCEPT ![r][a] = "done"]
  /\ UNCHANGED << handlerVars, backendVars, adminVars, pc, request, lookup,
                  meta, routing, taskArgs, resp, exc, canceled, mergeVars >>

AllFinished(r) == \A a \in Addrs : task[r][a] \in {"none", "done", "raised"}

\* Faulty variant: the dispatcher goes on without waiting for its tasks
SearchJoinNoWait(r) ==
  /\ pc[r] = "dispatch"
  /\ IF \E a \in Addrs : task[r][a] = "raised"
     THEN Raise(r, "TaskError")
     ELSE /\ pc' = [pc EXCEPT ![r] = "merge"]
          /\ UNCHANGED exc
  /\ UNCHANGED << handlerVars, backendVars, adminVars, request, lookup, meta,
                  routing, task, taskRet, taskArgs,
                  searched, all_topk_results, resp, canceled,
                  calls, mergeVars >>

\* Faulty variant: a raised task fails the request at once, the rest still
\* queued or running
SearchJoinFailFast(r) ==
  /\ pc[r] = "dispatch"
  /\ IF \E a \in Addrs : task[r][a] = "raised"
     THEN Raise(r, "TaskError")
     ELSE /\ AllFinished(r)
          /\ pc' = [pc EXCEPT ![r] = "merge"]
          /\ UNCHANGED exc
  /\ UNCHANGED << handlerVars, backendVars, adminVars, request, lookup, meta,
                  routing, task, taskRet, taskArgs, searched,
                  all_topk_results, resp, canceled, calls, mergeVars >>

\* Lines 131-132 and the pool's shutdown(wait=True) on leaving the with
\* block: every task has ended; result() re-raises a task's exception.
SearchJoin(r) ==
  /\ pc[r] = "dispatch"
  /\ AllFinished(r)
  /\ IF \E a \in Addrs : task[r][a] = "raised"
     THEN Raise(r, "TaskError")
     ELSE /\ pc' = [pc EXCEPT ![r] = "merge"]
          /\ UNCHANGED exc
  /\ UNCHANGED << handlerVars, backendVars, adminVars, request, lookup, meta,
                  routing, task, taskRet, taskArgs,
                  searched, all_topk_results, resp, canceled,
                  calls, mergeVars >>

\* Faulty variant: the flag inverted
ReverseInverted(table_meta_r) == table_meta_r.metric_type = "L2"

\* Line 134
Reverse(table_meta_r) == table_meta_r.metric_type = "IP"

\* Lines 134-139 and 290-294: merge and build the reply.
SearchMerge(r) ==
  /\ pc[r] = "merge"
  /\ LET res == do_merge(all_topk_results[r], request[r].topk,
                         Reverse(meta[r]))
     IN resp' = [resp EXCEPT ![r] =
          [status |-> [error_code |-> res.status.error_code,
                       reason |-> res.status.reason],
           topk_query_result |-> res.topk_query_result]]
  /\ pc' = [pc EXCEPT ![r] = "responded"]
  /\ UNCHANGED << handlerVars, backendVars, adminVars, request, lookup, meta,
                  routing, task, taskRet, taskArgs,
                  searched, all_topk_results, exc, canceled,
                  calls, mergeVars >>

\* The caller cancels the request's context while a sub-query is in flight;
\* no line of Search or _do_query reads the context's state.
Cancel(r) ==
  /\ pc[r] = "dispatch"
  /\ Running(r) # {}
  /\ ~canceled[r]
  /\ canceled' = [canceled EXCEPT ![r] = TRUE]
  /\ UNCHANGED << handlerVars, backendVars, adminVars, pc, request, lookup,
                  meta, routing, task, taskRet, taskArgs,
                  searched, all_topk_results, resp, exc,
                  calls, mergeVars >>

\* ------------------------------------------------------------------------
\* Administrative operations: each parses its request and passes it to a
\* backend connection; none touches self.table_meta.
\* ------------------------------------------------------------------------
BackendStatus(t) == IF catalog[t] = NoMeta THEN NotFoundStatus ELSE Success

Admin(op, t, status, metric) ==
  /\ adminCount < MaxAdmin
  /\ adminCount' = adminCount + 1
  /\ adminReply' = [error_code |-> status.error_code, metric_type |-> metric]
  /\ UNCHANGED << handlerVars, shardDists, reqVars, mergeVars >>

\* Lines 144-157
CreateTable(t, m) ==
  IF catalog[t] = NoMeta
  THEN /\ Admin("CreateTable", t, Success, "NONE")
       /\ catalog' = [catalog EXCEPT ![t] = Descriptor(t, m)]
  ELSE /\ Admin("CreateTable", t,
                [error_code |-> "META_FAILED", reason |-> "exists"], "NONE")
       /\ UNCHANGED catalog

\* Faulty variant: dropping a table also drops its cached descriptor
DropTableInvalidates(t) ==
  /\ adminCount < MaxAdmin
  /\ adminCount' = adminCount + 1
  /\ adminReply' = [error_code |-> BackendStatus(t).error_code,
                    metric_type |-> "NONE"]
  /\ catalog' = [catalog EXCEPT ![t] = NoMeta]
  /\ table_meta' = [table_meta EXCEPT ![t] = NoMeta]
  /\ UNCHANGED << max_workers, shardDists, reqVars, mergeVars >>

\* Lines 183-196
DropTable(t) ==
  /\ Admin("DropTable", t, BackendStatus(t), "NONE")
  /\ catalog' = [catalog EXCEPT ![t] = NoMeta]

\* Lines 303-331
DescribeTable(t) ==
  /\ Admin("DescribeTable", t, BackendStatus(t), catalog[t].metric_type)
  /\ UNCHANGED catalog

\* Lines 162-178, 201-217, 399-430, 464-474: HasTable, CreateIndex,
\* DeleteByRange, PreloadTable, DropIndex
PassThrough(op, t) ==
  /\ Admin(op, t, BackendStatus(t), "NONE")
  /\ UNCHANGED catalog

PassThroughOps ==
  {"HasTable", "CreateIndex", "DeleteByRange", "PreloadTable", "DropIndex"}

NoReply == [error_code |-> "NONE", metric_type |-> "NONE"]

\* ------------------------------------------------------------------------
\* Specifications
\* ------------------------------------------------------------------------
\* A direct call of _do_merge is not part of the handler's behaviours.
MergeIdle ==
  /\ m_in = << >>
  /\ m_topk = 0
  /\ m_reverse = FALSE
  /\ m_out = NoResp
  /\ m_pc = "off"

\* The handler after __init__ (lines 25-30), in front of a backend whose
\* catalog is one of cats and whose shards all hold one of dists.
InitHandler(workers, cats, dists) ==
  /\ table_meta = [t \in TableNames |-> NoMeta]
  /\ max_workers \in workers
  /\ catalog \in cats
  /\ \E d \in dists : shardDists = [a \in Addrs |-> d]
  /\ adminCount = 0
  /\ adminReply = NoReply
  /\ pc = [r \in Reqs |-> "idle"]
  /\ request = [r \in Reqs |-> NoReq]
  /\ lookup = [r \in Reqs |-> NoLookup]
  /\ meta = [r \in Reqs |-> NoMeta]
  /\ routing = [r \in Reqs |-> << >>]
  /\ task = [r \in Reqs |-> [a \in Addrs |-> "none"]]
  /\ taskRet = [r \in Reqs |-> [a \in Addrs |-> ErrorTuple(NoStatus)]]
  /\ taskArgs = [r \in Reqs |-> [a \in Addrs |-> NoArgs]]
  /\ searched = [r \in Reqs |-> {}]
  /\ all_topk_results = [r \in Reqs |-> << >>]
  /\ resp = [r \in Reqs |-> NoResp]
  /\ exc = [r \in Reqs |-> ""]
  /\ canceled = [r \in Reqs |-> FALSE]
  /\ calls = [r \in Reqs |-> NoCalls]
  /\ MergeIdle

\* Catalogs: no table at all, or t1 alone under either metric.
Catalogs ==
  [TableNames -> {NoMeta}] \cup
  {[t \in TableNames |-> IF t = "t1" THEN Descriptor(t, m) ELSE NoMeta] :
     m \in Metrics}

\* The steps of the Search requests rs, their inputs drawn from the sets.
SearchSteps(rs, tables, topks, nprobes, nqs, plans, modes) ==
  \/ \E r \in rs, t \in tables, topk \in topks, nprobe \in nprobes,
        nq \in nqs : SearchReceive(r, t, topk, nprobe, nq)
  \/ \E r \in rs, up \in BOOLEAN : SearchDescribe(r, up)
  \/ \E r \in rs : SearchCache(r)
  \/ \E r \in rs, plan \in plans : SearchRouting(r, plan)
  \/ \E r \in rs, a \in Addrs, connected \in BOOLEAN :
        TaskStart(r, a, connected)
  \/ \E r \in rs, a \in Addrs, mode \in modes : TaskFinish(r, a, mode)
  \/ \E r \in rs : SearchJoin(r)
  \/ \E r \in rs : SearchMerge(r)

AdminSteps(tables) ==
  \/ \E t \in tables, m \in Metrics : CreateTable(t, m)
  \/ \E t \in tables : DropTable(t)
  \/ \E t \in tables : DescribeTable(t)
  \/ \E op \in PassThroughOps, t \in tables : PassThrough(op, t)

\* Spec: one Search request, every input, and the caller's cancellation.
TopKs == {0, 1, MAX_TOPK, MAX_TOPK + 1}
NProbes == {0, 1, MAX_NPROBE, MAX_NPROBE + 1}
NQs == {1, 2}
Modes == {"ok", "short", "tuple"}
ShardData == {<< >>, << 1 >>, << 1, 1 >>, << 1, 2 >>, << 2, 1 >>}

Init == InitHandler(1..MaxWorkers, Catalogs, ShardData)

Next ==
  \/ SearchSteps({"r1"}, TableNames, TopKs, NProbes, NQs, Plans, Modes)
  \/ Cancel("r1")

Spec == Init /\ [][Next]_vars

\* SpecConc: two Search requests side by side and the administrative
\* operations, over one backend data set.
InitConc ==
  InitHandler({MaxWorkers}, Catalogs, {<< 1, 2 >>})

NextConc ==
  \/ SearchSteps(Reqs, {"t1"}, {2}, {MAX_NPROBE}, {1},
                 {<< >>, << "a1", "a2" >>}, {"ok", "tuple"})
  \/ AdminSteps({"t1"})

SpecConc == InitConc /\ [][NextConc]_vars

\* SpecFair: one Search request on a pool whose workers keep taking queued
\* tasks, whose sub-queries return, and whose dispatcher thread keeps running.
InitFair == InitHandler(1..MaxWorkers, Catalogs, {<< 1 >>})

NextFair ==
  SearchSteps({"r1"}, {"t1"}, {1}, {1}, {1}, Plans, {"ok", "tuple"})

Fairness ==
  /\ WF_vars(\E a \in Addrs, connected \in BOOLEAN :
               TaskStart("r1", a, connected))
  /\ WF_vars(\E a \in Addrs, mode \in {"ok", "tuple"} :
               TaskFinish("r1", a, mode))
  /\ WF_vars(SearchJoin("r1"))
  /\ WF_vars(SearchMerge("r1"))

SpecFair == InitFair /\ [][NextFair]_vars /\ Fairness

\* SpecIso: two Search requests side by side on the same table, told apart
\* by their topk (r1 asks for one row, r2 for two).
InitIso == InitHandler({MaxWorkers}, Catalogs, {<< 1, 2 >>})

NextIso ==
  \/ SearchSteps({"r1"}, {"t1"}, {1}, {1}, {1}, Plans, {"ok", "tuple"})
  \/ SearchSteps({"r2"}, {"t1"}, {2}, {1}, {1}, Plans, {"ok", "tuple"})

SpecIso == InitIso /\ [][NextIso]_vars

\* MergeSpec: _do_merge called directly on a collection of partials.
\* Partial number i of a collection carries rows with ids of its own.
Block(i, p, ds) ==
  [k \in 1..Len(ds) |-> [id |-> 100 * i + 10 * p + k, distance |-> ds[k]]]

\* Partial number i: an error tuple, or a response of zero, one or two
\* blocks (the second block of at most one row).
ErrorStatuses ==
  {[error_code |-> "UNAVAILABLE", reason |-> "e1"],
   [error_code |-> "UNEXPECTED_ERROR", reason |-> "e2"]}
Partials1(i) ==
  {ErrorTuple(st) : st \in ErrorStatuses} \cup {Response(<< >>)} \cup
  {Response(<< Block(i, 1, ds) >>) : ds \in DistSeqs(MaxRows)}
Partials2(i) ==
  Partials1(i) \cup
  {Response(<< Block(i, 1, ds), Block(i, 2, es) >>) :
     ds \in DistSeqs(MaxRows), es \in DistSeqs(1)}

\* MaxK partials of one row each, the rows' distances all different
DistinctPartials ==
  {[i \in 1..MaxK |-> Response(<< Block(i, 1, << d[i] >>) >>)] :
     d \in {f \in [1..MaxK -> 1..MaxK] :
              \A i, j \in 1..MaxK : i # j => f[i] # f[j]}}

\* Collections: up to three partials of at most one block, or up to two
\* partials of at most two blocks, or partials of distinct distances.
Collections ==
  {<< >>} \cup
  {<< x >> : x \in Partials2(1)} \cup
  {<< x, y >> : x \in Partials2(1), y \in Partials2(2)} \cup
  {<< x, y, z >> : x \in Partials1(1), y \in Partials1(2), z \in Partials1(3)}
  \cup DistinctPartials

InitMerge ==
  /\ table_meta = [t \in TableNames |-> NoMeta]
  /\ max_workers = 1
  /\ catalog = [t \in TableNames |-> NoMeta]
  /\ shardDists = [a \in Addrs |-> << >>]
  /\ adminCount = 0
  /\ adminReply = NoReply
  /\ pc = [r \in Reqs |-> "idle"]
  /\ request = [r \in Reqs |-> NoReq]
  /\ lookup = [r \in Reqs |-> NoLookup]
  /\ meta = [r \in Reqs |-> NoMeta]
  /\ routing = [r \in Reqs |-> << >>]
  /\ task = [r \in Reqs |-> [a \in Addrs |-> "none"]]
  /\ taskRet = [r \in Reqs |-> [a \in Addrs |-> ErrorTuple(NoStatus)]]
  /\ taskArgs = [r \in Reqs |-> [a \in Addrs |-> NoArgs]]
  /\ searched = [r \in Reqs |-> {}]
  /\ all_topk_results = [r \in Reqs |-> << >>]
  /\ resp = [r \in Reqs |-> NoResp]
  /\ exc = [r \in Reqs |-> ""]
  /\ canceled = [r \in Reqs |-> FALSE]
  /\ calls = [r \in Reqs |-> NoCalls]
  /\ m_in \in Collections
  /\ m_topk \in (1..MaxK) \cup {MAX_TOPK}
  /\ m_reverse \in BOOLEAN
  /\ m_out = NoResp
  /\ m_pc = "call"

\* Lines 32-64, one call.
MergeCall ==
  /\ m_pc = "call"
  /\ m_out' = do_merge(m_in, m_topk, m_reverse)
  /\ m_pc' = "done"
  /\ UNCHANGED << handlerVars, backendVars, adminVars, reqVars,
                  m_in, m_topk, m_reverse >>

NextMerge == MergeCall

MergeSpec == InitMerge /\ [][NextMerge]_vars

\* ------------------------------------------------------------------------
\* Properties
\* ------------------------------------------------------------------------
Done(r) == pc[r] = "responded"
Blocks(r) == resp[r].topk_query_result

\* Distances along a block: non-decreasing for L2, non-increasing for IP
Monotonic(block, metric) ==
  \A i, j \in 1..Len(block) :
    i < j => IF metric = "IP" THEN block[i].distance >= block[j].distance
             ELSE block[i].distance <= block[j].distance

WithinK(r) ==
  \A p \in 1..Len(Blocks(r)) :
    /\ Len(Blocks(r)[p]) <= request[r].topk
    /\ Monotonic(Blocks(r)[p], meta[r].metric_type)

\* The number of blocks of the longest response collected, 0 if none
Longest(coll) ==
  IF \A i \in 1..Len(coll) : coll[i].is_tuple THEN 0
  ELSE LET i == CHOOSE i \in 1..Len(coll) :
                  /\ ~coll[i].is_tuple
                  /\ \A j \in 1..Len(coll) :
                       ~coll[j].is_tuple =>
                         Len(coll[j].topk_query_result)
                           <= Len(coll[i].topk_query_result)
       IN Len(coll[i].topk_query_result)

\* C1 as stated: every successful Search returns exactly nq blocks of at
\* most K rows, sorted by the metric, whatever the routing plan.
C1_Original ==
  \A r \in Reqs :
    Done(r) /\ OK(resp[r].status) =>
      /\ Len(Blocks(r)) = request[r].nq
      /\ WithinK(r)

\* C1 amended: every successful Search returns as many blocks as the longest
\* partial it collected (nq once a partial carries nq blocks, none for an
\* empty plan); each block has at most K rows and is sorted by the metric.
C1_BlocksSorted ==
  \A r \in Reqs :
    Done(r) /\ OK(resp[r].status) =>
      /\ Len(Blocks(r)) = Longest(all_topk_results[r])
      /\ (\E i \in 1..Len(all_topk_results[r]) :
            Len(all_topk_results[r][i].topk_query_result) = request[r].nq)
           => Len(Blocks(r)) = request[r].nq
      /\ routing[r] = << >> => Blocks(r) = << >>
      /\ WithinK(r)

\* A successful two-shard, two-query IP search whose first block holds rows
\* of different distances
C1_Witness ==
  /\ Done("r1") /\ OK(resp["r1"].status)
  /\ Len(routing["r1"]) = 2
  /\ request["r1"].nq = 2
  /\ meta["r1"].metric_type = "IP"
  /\ Len(Blocks("r1")) = 2
  /\ Len(Blocks("r1")[1]) >= 3
  /\ Blocks("r1")[1][1].distance > Blocks("r1")[1][3].distance

Finished(r) == pc[r] \in {"responded", "failed"}

\* C2 as stated: two Searches with the same arguments, plan, descriptor and
\* per-shard outcomes end the same way, whatever the order in which the
\* partials reached the collection.
C2_Idempotent ==
  \A r, s \in Reqs :
    ( /\ Finished(r) /\ Finished(s)
      /\ request[r] = request[s]
      /\ meta[r] = meta[s]
      /\ routing[r] = routing[s]
      /\ task[r] = task[s]
      /\ taskRet[r] = taskRet[s] )
    => resp[r] = resp[s] /\ exc[r] = exc[s]

ErrorAt(coll) == {i \in 1..Len(coll) : coll[i].is_tuple}
FirstError(coll) == CHOOSE i \in ErrorAt(coll) : \A j \in ErrorAt(coll) : i <= j

\* C3: when the collection holds an error partial, _do_merge returns the
\* status of the first one in collection order and no rows at all.
C3_FirstError ==
  m_pc = "done" /\ ErrorAt(m_in) # {} =>
    /\ m_out.status = m_in[FirstError(m_in)].status
    /\ m_out.topk_query_result = << >>

\* A response with rows, then two error partials of different status
C3_Witness ==
  /\ m_pc = "done"
  /\ Len(m_in) = 3
  /\ ErrorAt(m_in) = {2, 3}
  /\ m_in[2].status # m_in[3].status
  /\ Len(m_in[1].topk_query_result) = 1
  /\ m_in[1].topk_query_result[1] # << >>
  /\ m_out.status = m_in[2].status

InvalidErrors == {"InvalidArgumentError", "InvalidTopKError"}
InBounds(req) ==
  /\ 0 < req.topk /\ req.topk <= 2048
  /\ 0 < req.nprobe /\ req.nprobe <= 2048

\* C4: a request is rejected exactly when topk or nprobe is outside
\* 1..2048; a rejected request has failed with an invalid-argument error
\* before any backend call: no describe_table, no routing, no connection, no
\* sub-query, and nothing cached.
C4_Validation ==
  \A r \in Reqs :
    request[r] # NoReq =>
      IF InBounds(request[r])
      THEN exc[r] \notin InvalidErrors
      ELSE /\ pc[r] = "failed"
           /\ exc[r] \in InvalidErrors
           /\ calls[r] = NoCalls
           /\ routing[r] = << >>
           /\ all_topk_results[r] = << >>
           /\ \A a \in Addrs : task[r][a] = "none"
           /\ \A t \in TableNames : table_meta[t] = NoMeta

\* topk one above the bound, nprobe on its bound
C4_Witness ==
  /\ pc["r1"] = "failed"
  /\ request["r1"].topk = MAX_TOPK + 1
  /\ request["r1"].nprobe = MAX_NPROBE
  /\ exc["r1"] = "InvalidTopKError"

NoBackendWork(r) ==
  /\ calls[r].routing = 0 /\ calls[r].conn = 0 /\ calls[r].search = 0
  /\ routing[r] = << >>
  /\ all_topk_results[r] = << >>
  /\ \A a \in Addrs : task[r][a] = "none"

\* C5: a Search whose describe_table lookup reports the table as unknown
\* fails with TableNotFoundError on its next step and leaves the cache as it
\* was; such a request never called the router nor submitted a sub-query;
\* and a Search that finds no entry for its table goes to the lookup.
C5_UnknownTable ==
  /\ [][\A r \in Reqs :
          pc[r] = "cache" /\ pc'[r] # "cache"
            /\ lookup[r].status = NotFoundStatus
          => /\ pc'[r] = "failed"
             /\ exc'[r] = "TableNotFoundError"
             /\ table_meta' = table_meta]_vars
  /\ [](\A r \in Reqs :
          exc[r] = "TableNotFoundError" => pc[r] = "failed" /\ NoBackendWork(r))
  /\ [][\A r \in Reqs :
          pc[r] = "idle" /\ pc'[r] \notin {"idle", "failed"}
            /\ table_meta[request'[r].table_name] = NoMeta
          => pc'[r] = "describe"]_vars

\* One request failed on the unknown table, nothing was cached, and the
\* next request on that name has looked the table up again.
C5_Witness ==
  /\ pc["r1"] = "failed" /\ exc["r1"] = "TableNotFoundError"
  /\ lookup["r1"].status = NotFoundStatus
  /\ request["r2"].table_name = request["r1"].table_name
  /\ table_meta[request["r1"].table_name] = NoMeta
  /\ calls["r2"].describe = 1
  /\ calls["r1"].describe = 1

\* C6 as stated: Search fails with the code the lookup returned, so it
\* reports a missing table only when the lookup said the table is missing.
C6_UnderlyingCode ==
  \A r \in Reqs :
    exc[r] = "TableNotFoundError" =>
      lookup[r].status.error_code = "TABLE_NOT_EXISTS"

\* C7: with an empty routing plan no connection is acquired and no
\* sub-query runs, the request does not fail, and its reply is Success with
\* an empty result list.
C7_EmptyPlan ==
  \A r \in Reqs :
    calls[r].routing = 1 /\ routing[r] = << >> =>
      /\ pc[r] \in {"dispatch", "merge", "responded"}
      /\ calls[r].conn = 0 /\ calls[r].search = 0
      /\ \A a \in Addrs : task[r][a] = "none"
      /\ all_topk_results[r] = << >>
      /\ Done(r) => resp[r] = [status |-> Success, topk_query_result |-> << >>]

C7_Witness ==
  /\ Done("r1")
  /\ calls["r1"].routing = 1
  /\ routing["r1"] = << >>
  /\ request["r1"].nq = 2
  /\ resp["r1"].status = Success

\* What _do_query hands back for the collection of request r
Merged(r) ==
  do_merge(all_topk_results[r], request[r].topk, meta[r].metric_type = "IP")

C9_CacheNeverInvalidated ==
  /\ [][adminCount' # adminCount =>
          /\ table_meta' = table_meta
          /\ adminReply'.metric_type # "NONE" =>
               \E t \in TableNames :
                 adminReply'.metric_type = catalog[t].metric_type]_vars
  /\ [][\A t \in TableNames :
          table_meta[t] # NoMeta => table_meta'[t] # NoMeta]_vars
  /\ [][\A r \in Reqs :
          pc[r] = "idle" /\ pc'[r] \notin {"idle", "failed"}
            /\ table_meta[request'[r].table_name] # NoMeta
          => /\ pc'[r] = "routing"
             /\ meta'[r] = table_meta[request'[r].table_name]
             /\ calls'[r].describe = 0]_vars
  /\ [][\A r \in Reqs :
          /\ pc[r] \notin {"idle", "cache"} => meta'[r] = meta[r]
          /\ pc[r] # "describe" =>
               calls'[r].describe = calls[r].describe]_vars
  /\ [](\A r \in Reqs :
          Done(r) => /\ resp[r].status = Merged(r).status
                     /\ Blocks(r) = Merged(r).topk_query_result)

\* t1 was cached as IP, then dropped and created again as L2; a Search that
\* made no lookup has been answered with the largest distances.
C9_Witness ==
  /\ adminCount = 2
  /\ catalog["t1"].metric_type = "L2"
  /\ table_meta["t1"].metric_type = "IP"
  /\ Done("r2")
  /\ calls["r2"].describe = 0
  /\ meta["r2"].metric_type = "IP"
  /\ Len(Blocks("r2")) = 1
  /\ Blocks("r2")[1][1].distance = 2

\* The blocks of the partials at position p, concatenated from partial i on
RECURSIVE ConcatAt(_, _, _)
ConcatAt(coll, p, i) ==
  IF i > Len(coll) THEN << >>
  ELSE coll[i].topk_query_result[p] \o ConcatAt(coll, p, i + 1)

\* The place of rows[i] in the stable sort: after the rows of better
\* distance and after the earlier rows of equal distance.
Rank(rows, i, reverse) ==
  1 + Cardinality({j \in 1..Len(rows) :
        \/ IF reverse THEN rows[j].distance > rows[i].distance
           ELSE rows[j].distance < rows[i].distance
        \/ rows[j].distance = rows[i].distance /\ j < i})

StableSorted(rows, reverse) ==
  [k \in 1..Len(rows) |->
     rows[CHOOSE i \in 1..Len(rows) : Rank(rows, i, reverse) = k]]

SameBlockCount(coll) ==
  \A i, j \in 1..Len(coll) :
    Len(coll[i].topk_query_result) = Len(coll[j].topk_query_result)

\* C10: for non-error partials that all have nq blocks, the block returned
\* at position p is the concatenation of the partials' blocks at p in
\* collection order, stably sorted by distance (ascending, descending when
\* reversed) and cut to topk rows; rows of equal distance appear by partial
\* index, then by their place in the partial (ids grow in that order).
C10_MergeIsReference ==
  m_pc = "done" /\ m_in # << >> /\ ErrorAt(m_in) = {} /\ SameBlockCount(m_in)
  => /\ m_out.status = Success
     /\ Len(m_out.topk_query_result) = Len(m_in[1].topk_query_result)
     /\ \A p \in 1..Len(m_out.topk_query_result) :
          LET out == m_out.topk_query_result[p]
          IN /\ out = Take(StableSorted(ConcatAt(m_in, p, 1), m_reverse),
                           m_topk)
             /\ \A a, b \in 1..Len(out) :
                  a < b /\ out[a].distance = out[b].distance
                    => out[a].id < out[b].id

\* Two partials of two blocks, rows of equal distance in different
\* partials, more rows than topk, descending order
C10_Witness ==
  /\ m_pc = "done" /\ m_reverse /\ m_topk = 3
  /\ Len(m_in) = 2 /\ ErrorAt(m_in) = {}
  /\ Len(m_in[1].topk_query_result) = 2 /\ Len(m_in[2].topk_query_result) = 2
  /\ Len(m_in[1].topk_query_result[1]) = 2
  /\ Len(m_in[2].topk_query_result[1]) = 2
  /\ m_in[1].topk_query_result[1][2].distance = 2
  /\ m_in[2].topk_query_result[1][1].distance = 2
  /\ Len(m_out.topk_query_result) = 2
  /\ Len(m_out.topk_query_result[1]) = 3
  /\ Len(m_out.topk_query_result[2]) = 2

\* The block of a partial at position p; a partial that has no block at p
\* adds no row there.
BlockAt(partial, p) ==
  IF p <= Len(partial.topk_query_result)
  THEN partial.topk_query_result[p] ELSE << >>

\* The rows all partials from i on hold at position p, in collection order
RECURSIVE RowsAt(_, _, _)
RowsAt(coll, p, i) ==
  IF i > Len(coll) THEN << >>
  ELSE BlockAt(coll[i], p) \o RowsAt(coll, p, i + 1)

Ids(rows) == {rows[k].id : k \in 1..Len(rows)}
Range(s) == {s[k] : k \in 1..Len(s)}

\* C11: after a successful merge the block at every position p has
\* min(topk, number of rows the partials hold at p) rows; each of them is a
\* row some partial holds at p, none appears twice, and when the partials
\* hold at most topk rows at p every one of them is in the block.
C11_LengthIsMinKSum ==
  m_pc = "done" /\ OK(m_out.status) =>
    \A p \in 1..Longest(m_in) :
      LET out == m_out.topk_query_result[p]
          rows == RowsAt(m_in, p, 1)
      IN /\ Len(out) = Min(m_topk, Len(rows))
         /\ Range(out) \subseteq Range(rows)
         /\ Cardinality(Ids(out)) = Len(out)
         /\ Len(rows) <= m_topk => Range(out) = Range(rows)

\* Three partials holding five rows at the one position, cut to three
C11_Witness ==
  /\ m_pc = "done" /\ OK(m_out.status) /\ m_topk = 3
  /\ Len(m_in) = 3
  /\ Len(RowsAt(m_in, 1, 1)) = 5
  /\ Len(BlockAt(m_in[2], 1)) = 1
  /\ Len(m_out.topk_query_result) = 1
  /\ Len(m_out.topk_query_result[1]) = 3

\* The result of a merge handed on as a partial
AsPartial(res) == Response(res.topk_query_result)

\* coll from partial i on, cut into consecutive groups after the positions
\* in cuts; each group merged with topk and handed on as a partial
RECURSIVE MergeGroups(_, _, _, _, _)
MergeGroups(coll, i, cuts, topk, reverse) ==
  IF i > Len(coll) THEN << >>
  ELSE LET ends == {c \in cuts \cup {Len(coll)} : c >= i}
           last == CHOOSE c \in ends : \A d \in ends : c <= d
       IN << AsPartial(do_merge(SubSeq(coll, i, last), topk, reverse)) >>
            \o MergeGroups(coll, last + 1, cuts, topk, reverse)

Orders(n) == {f \in [1..n -> 1..n] : \A i, j \in 1..n : i # j => f[i] # f[j]}
Reordered(coll, f) == [i \in 1..Len(coll) |-> coll[f[i]]]

\* No two rows at the same position have the same distance
DistinctDistances(coll) ==
  \A p \in 1..Longest(coll) :
    LET rows == RowsAt(coll, p, 1)
    IN \A a, b \in 1..Len(rows) : a # b => rows[a].distance # rows[b].distance

\* C12: for non-error partials, cutting the collection into consecutive
\* groups (the partials keep their order), merging each group with topk and
\* merging the group results with topk gives the blocks of merging the whole
\* collection at once; and when no two rows at a position have the same
\* distance, so does every reordering of the partials, grouped in any way.
C12_Associative ==
  m_pc = "done" /\ m_in # << >> /\ ErrorAt(m_in) = {} =>
    /\ \A cuts \in SUBSET (1..(Len(m_in) - 1)) :
         do_merge(MergeGroups(m_in, 1, cuts, m_topk, m_reverse),
                  m_topk, m_reverse) = m_out
    /\ DistinctDistances(m_in) =>
         \A f \in Orders(Len(m_in)), cuts \in SUBSET (1..(Len(m_in) - 1)) :
           /\ do_merge(Reordered(m_in, f), m_topk, m_reverse) = m_out
           /\ do_merge(MergeGroups(Reordered(m_in, f), 1, cuts,
                                   m_topk, m_reverse),
                       m_topk, m_reverse) = m_out

\* Three partials whose rows tie across the first and the last partial,
\* more rows than topk
C12_Witness ==
  /\ m_pc = "done" /\ OK(m_out.status) /\ m_topk = 2 /\ ~m_reverse
  /\ Len(m_in) = 3 /\ ErrorAt(m_in) = {}
  /\ Len(BlockAt(m_in[1], 1)) = 2 /\ Len(BlockAt(m_in[3], 1)) = 2
  /\ Len(BlockAt(m_in[2], 1)) = 1
  /\ BlockAt(m_in[1], 1)[2].distance = 1
  /\ BlockAt(m_in[2], 1)[1].distance = 1
  /\ BlockAt(m_in[3], 1)[1].distance = 1
  /\ Len(m_out.topk_query_result[1]) = 2

\* Partials of distinct distances, the nearest row in the last partial, cut
\* to fewer rows than there are partials
C12_WitnessDistinct ==
  /\ m_pc = "done" /\ OK(m_out.status) /\ ~m_reverse
  /\ m_in \in DistinctPartials
  /\ m_topk < Len(m_in)
  /\ BlockAt(m_in[Len(m_in)], 1)[1].distance = 1
  /\ BlockAt(m_in[1], 1)[1].distance = Len(m_in)

MergeStarted(r) == pc[r] \in {"merge", "responded"}

\* C13: the merge of a Search starts only when every task submitted for the
\* request has finished and appended its partial; from then on nothing is
\* appended to the collection and no task changes state; and the reply is
\* the merge of that complete collection.
C13_BarrierBeforeMerge ==
  /\ [](\A r \in Reqs :
          MergeStarted(r) =>
            /\ \A a \in Addrs : task[r][a] = IF InPlan(r, a) THEN "done" ELSE "none"
            /\ Len(all_topk_results[r]) = Len(routing[r]))
  /\ [][\A r \in Reqs :
          /\ pc'[r] = "merge" /\ pc[r] # "merge" =>
               pc[r] = "dispatch" /\ AllFinished(r)
          /\ MergeStarted(r) =>
               /\ all_topk_results'[r] = all_topk_results[r]
               /\ task'[r] = task[r]
          /\ pc[r] = "merge" /\ pc'[r] = "responded" =>
               /\ resp'[r].status = Merged(r).status
               /\ resp'[r].topk_query_result = Merged(r).topk_query_result]_vars

\* Two tasks ran side by side and the second of the plan appended first;
\* the merge has run on both partials.
C13_Witness ==
  /\ Done("r1") /\ max_workers = 2
  /\ Len(routing["r1"]) = 2
  /\ Len(all_topk_results["r1"]) = 2
  /\ taskRet["r1"]["a1"] # taskRet["r1"]["a2"]
  /\ all_topk_results["r1"][1] = taskRet["r1"][routing["r1"][2]]
  /\ all_topk_results["r1"][2] = taskRet["r1"][routing["r1"][1]]
  /\ OK(resp["r1"].status)

\* The tasks of r that failed: the connection could not be acquired, or the
\* search-in-files call came back with an error
FailedTasks(r) ==
  {a \in Addrs : \/ task[r][a] = "raised"
                 \/ task[r][a] = "done" /\ taskRet[r][a].is_tuple}

HasErrorPartial(r, a) ==
  \E i \in 1..Len(all_topk_results[r]) :
    /\ all_topk_results[r][i].is_tuple
    /\ all_topk_results[r][i].status = ShardStatus(a)
    /\ all_topk_results[r][i].topk_query_result = << >>

\* C14 as stated: when a Search has ended and one of its tasks failed, the
\* failure is an error partial of the collection, every other task of the
\* plan ran to completion, and the request is answered through the merge
\* with an error status and an empty result list.
C14_FailureIsErrorPartial ==
  \A r \in Reqs :
    Finished(r) /\ FailedTasks(r) # {} =>
      /\ \A a \in FailedTasks(r) : HasErrorPartial(r, a)
      /\ \A a \in Addrs : InPlan(r, a) /\ a \notin FailedTasks(r) =>
           task[r][a] = "done"
      /\ Done(r)
      /\ ~OK(resp[r].status)
      /\ Blocks(r) = << >>

\* C15 as stated: when the non-error partials handed to _do_merge do not
\* all have the same number of blocks, the merge returns an error status
\* and an empty result list.
C15_ShortPartialIsInternal ==
  m_pc = "done" /\ ErrorAt(m_in) = {} /\ ~SameBlockCount(m_in) =>
    /\ ~OK(m_out.status)
    /\ m_out.topk_query_result = << >>

\* Received, Validated (descriptor looked up, cached, plan asked for),
\* Dispatched (plan held, tasks submitted), Merged (dispatcher returned, the
\* merge runs), Responded
Stage(p) ==
  CASE p = "idle" -> 0
    [] p = "describe" -> 1
    [] p = "cache" -> 2
    [] p = "routing" -> 3
    [] p = "dispatch" -> 4
    [] p = "merge" -> 5
    [] p = "responded" -> 6
    [] OTHER -> 7

TaskSteps ==
  {<< "none", "queued" >>, << "queued", "running" >>, << "queued", "raised" >>,
   << "running", "done" >>}

\* C16: a Search only moves forward through its stages or fails; a request
\* that has responded or failed stays as it is, and a failed one never has a
\* response; the router is asked for a plan at most once, a plan once made
\* is kept, every address gets at most one connection attempt and at most
\* one sub-query (a task never goes back to an earlier state), and the
\* response is written once, by the one merge.
C16_LinearNoRetry ==
  /\ [][\A r \in Reqs :
          /\ pc'[r] # pc[r] =>
               /\ pc[r] \notin {"responded", "failed"}
               /\ pc'[r] = "failed" \/ Stage(pc'[r]) > Stage(pc[r])
          /\ pc[r] \in {"responded", "failed"} =>
               /\ resp'[r] = resp[r]
               /\ exc'[r] = exc[r]
               /\ calls'[r] = calls[r]
          /\ resp'[r] # resp[r] => pc[r] = "merge" /\ pc'[r] = "responded"
          /\ Stage(pc[r]) >= 4 => routing'[r] = routing[r]
          /\ \A a \in Addrs :
               task'[r][a] # task[r][a] =>
                 << task[r][a], task'[r][a] >> \in TaskSteps]_vars
  /\ [](\A r \in Reqs :
          /\ calls[r].routing <= 1
          /\ calls[r].routing = 1 <=> Stage(pc[r]) >= 4 /\ exc[r] \in {"", "TaskError"}
          /\ calls[r].conn =
               Cardinality({a \in Addrs :
                              task[r][a] \in {"running", "done", "raised"}})
          /\ calls[r].search =
               Cardinality({a \in Addrs : task[r][a] = "done"})
          /\ pc[r] = "failed" => resp[r] = NoResp /\ exc[r] # ""
          /\ pc[r] # "failed" => exc[r] = "")

\* A request failed in the dispatcher: one task could not connect and was
\* not tried again, the other ran its one sub-query; there is no response.
C16_Witness ==
  /\ pc["r1"] = "failed" /\ exc["r1"] = "TaskError"
  /\ Len(routing["r1"]) = 2
  /\ task["r1"][routing["r1"][1]] = "raised"
  /\ task["r1"][routing["r1"][2]] = "done"
  /\ calls["r1"] = [describe |-> 1, routing |-> 1, conn |-> 2, search |-> 1]
  /\ resp["r1"] = NoResp

PlanAddrs(r) == {routing[r][i] : i \in 1..Len(routing[r])}

\* C17: once the plan is made, exactly its addresses have a task, each
\* submitted with its own address and that address's table id and file ids;
\* and when all sub-queries returned and the merge starts, the backends
\* received exactly one search call per address, with those arguments, and
\* the collection holds exactly one partial per address: the partials the
\* tasks got back, each once, in some order.
C17_OnePartialPerAddress ==
  \A r \in Reqs :
    /\ calls[r].routing = 1 =>
         /\ {a \in Addrs : task[r][a] # "none"} = PlanAddrs(r)
         /\ Cardinality(PlanAddrs(r)) = Len(routing[r])
         /\ \A a \in PlanAddrs(r) :
              taskArgs[r][a] =
                [addr |-> a,
                 query_params |-> [table_id |-> request[r].table_name,
                                   file_ids |-> << AddrNo(a) >>]]
    /\ MergeStarted(r) =>
         /\ calls[r].conn = Len(routing[r])
         /\ calls[r].search = Len(routing[r])
         /\ searched[r] = {taskArgs[r][a] : a \in PlanAddrs(r)}
         /\ Cardinality(searched[r]) = Len(routing[r])
         /\ Len(all_topk_results[r]) = Len(routing[r])
         /\ \E f \in Orders(Len(routing[r])) :
              \A i \in 1..Len(routing[r]) :
                all_topk_results[r][i] = taskRet[r][routing[r][f[i]]]

\* Both tasks of a two-address plan returned rows, the first of the plan
\* last; the merge is about to start on the two partials.
C17_Witness ==
  /\ pc["r1"] = "merge"
  /\ routing["r1"] = << "a2", "a1" >>
  /\ Len(all_topk_results["r1"]) = 2
  /\ ~all_topk_results["r1"][1].is_tuple /\ ~all_topk_results["r1"][2].is_tuple
  /\ all_topk_results["r1"][1] = taskRet["r1"]["a1"]
  /\ all_topk_results["r1"][2] = taskRet["r1"]["a2"]
  /\ taskRet["r1"]["a1"] # taskRet["r1"]["a2"]
  /\ Cardinality(searched["r1"]) = 2

DispatcherLeft(r) == pc[r] \in {"merge", "responded", "failed"}

\* C18: when the dispatcher of a Search has returned or failed, no task of
\* the request is queued or running, whether or not a task raised; and the
\* step on which the dispatcher returns or fails is taken with every task
\* ended, and leaves the tasks as they are.
C18_NoTaskOutlives ==
  /\ [](\A r \in Reqs :
          DispatcherLeft(r) =>
            \A a \in Addrs : task[r][a] \notin {"queued", "running"})
  /\ [][\A r \in Reqs :
          pc[r] = "dispatch" /\ pc'[r] # "dispatch" =>
            /\ \A a \in Addrs : task[r][a] \in {"none", "done", "raised"}
            /\ task'[r] = task[r]
            /\ pc'[r] = "failed" <=> \E a \in Addrs : task[r][a] = "raised"]_vars

\* One worker: the first task of the plan raised, the second was still run
\* to its end before the request failed.
C18_Witness ==
  /\ pc["r1"] = "failed" /\ exc["r1"] = "TaskError"
  /\ max_workers = 1
  /\ routing["r1"] = << "a1", "a2" >>
  /\ task["r1"] = [a1 |-> "raised", a2 |-> "done"]
  /\ Len(all_topk_results["r1"]) = 1

\* C19: a request never has more than max_workers tasks running at once;
\* and with workers that keep taking queued tasks and sub-queries that
\* return, every queued task is eventually started, every started sub-query
\* completes, and the dispatcher is eventually left, also with more tasks
\* than workers.
C19_BoundedParallelism ==
  /\ [](\A r \in Reqs : Cardinality(Running(r)) <= max_workers)
  /\ \A r \in Reqs, a \in Addrs :
       /\ task[r][a] = "queued" ~> task[r][a] \in {"done", "raised"}
       /\ task[r][a] = "running" ~> task[r][a] = "done"
  /\ \A r \in Reqs : pc[r] = "dispatch" ~> DispatcherLeft(r)

\* One worker and two tasks: both sub-queries have completed.
C19_Witness ==
  /\ max_workers = 1
  /\ Len(routing["r1"]) = 2
  /\ task["r1"] = [a1 |-> "done", a2 |-> "done"]
  /\ calls["r1"].search = 2
  /\ DispatcherLeft("r1")

\* One worker and two tasks: one sub-query is running, the other task waits
C19_WitnessWaiting ==
  /\ max_workers = 1
  /\ Cardinality(Running("r1")) = 1
  /\ \E a \in Addrs : task["r1"][a] = "queued"

\* The requests whose describe_table call for table t succeeded
Found(t) ==
  {r \in Reqs : /\ request[r].table_name = t
                /\ calls[r].describe = 1
                /\ OK(lookup[r].status)}

\* C20: every cache entry is the descriptor a successful describe_table
\* call for that name returned to a request that has stored it; the cache
\* changes only when a request stores the descriptor of its own successful
\* lookup, under its table's name, whatever entry was there (the last
\* writer wins); an entry once present is never removed; and the step of a
\* request whose lookup failed leaves the cache as it is.
C20_CacheLastWriterWins ==
  /\ [](\A t \in TableNames :
          table_meta[t] # NoMeta =>
            \E r \in Found(t) :
              /\ pc[r] \notin {"idle", "describe", "cache"}
              /\ table_meta[t] = lookup[r].info
              /\ table_meta[t].table_name = t)
  /\ [][\A r \in Reqs :
          pc[r] = "cache" /\ pc'[r] # "cache" =>
            IF OK(lookup[r].status)
            THEN table_meta' =
                   [table_meta EXCEPT ![request[r].table_name] = lookup[r].info]
            ELSE table_meta' = table_meta]_vars
  /\ [][table_meta' # table_meta =>
          \E r \in Reqs : /\ pc[r] = "cache" /\ pc'[r] = "routing"
                          /\ OK(lookup[r].status)]_vars
  /\ [][\A t \in TableNames :
          table_meta[t] # NoMeta => table_meta'[t] # NoMeta]_vars

\* Both requests missed the cache and looked t1 up themselves, before and
\* after the table was created anew; the one that looked first stored last.
C20_Witness ==
  /\ calls["r1"].describe = 1 /\ calls["r2"].describe = 1
  /\ request["r1"].table_name = "t1" /\ request["r2"].table_name = "t1"
  /\ lookup["r1"].info.metric_type = "IP"
  /\ lookup["r2"].info.metric_type = "L2"
  /\ pc["r1"] = "routing" /\ pc["r2"] = "routing"
  /\ catalog["t1"].metric_type = "L2"
  /\ table_meta["t1"] = lookup["r1"].info

\* One request's lookup failed after the other had stored its descriptor:
\* the entry is still there.
C20_WitnessFailed ==
  /\ pc["r1"] = "failed" /\ exc["r1"] = "TableNotFoundError"
  /\ calls["r2"].describe = 1
  /\ pc["r2"] = "routing"
  /\ table_meta["t1"] = lookup["r2"].info
  /\ table_meta["t1"] # NoMeta

DoneTasks(r) == {a \in Addrs : task[r][a] = "done"}

\* The state of request r
Own(r) ==
  << pc[r], request[r], lookup[r], meta[r], routing[r], task[r], taskRet[r],
     taskArgs[r], searched[r], all_topk_results[r], resp[r], exc[r],
     canceled[r], calls[r] >>

\* C21: with several Searches in progress, the collection of a request
\* holds exactly the partials its own finished tasks got back, each once
\* (a response in it has blocks of at most the request's own topk rows), the
\* backends were called with its own tasks' arguments, and its reply is the
\* merge of that collection; a step changes the state of one request only,
\* and the handler's only state that a step of a request changes is the
\* descriptor cache.
C21_RequestIsolation ==
  /\ [](\A r \in Reqs :
          /\ Len(all_topk_results[r]) = Cardinality(DoneTasks(r))
          /\ \E f \in [1..Len(all_topk_results[r]) -> DoneTasks(r)] :
               /\ \A i, j \in DOMAIN f : i # j => f[i] # f[j]
               /\ \A i \in DOMAIN f : all_topk_results[r][i] = taskRet[r][f[i]]
          /\ \A i \in 1..Len(all_topk_results[r]) :
               LET blocks == all_topk_results[r][i].topk_query_result
               IN /\ Len(blocks) <= request[r].nq
                  /\ \A p \in 1..Len(blocks) : Len(blocks[p]) <= request[r].topk
          /\ searched[r] = {taskArgs[r][a] : a \in DoneTasks(r)}
          /\ Done(r) => /\ resp[r].status = Merged(r).status
                        /\ Blocks(r) = Merged(r).topk_query_result)
  /\ [][\A r, s \in Reqs : Own(r)' # Own(r) /\ s # r => Own(s)' = Own(s)]_vars
  /\ [][/\ max_workers' = max_workers
        /\ table_meta' # table_meta => \E r \in Reqs : pc[r] = "cache"]_vars

\* Both requests are in their dispatchers with one partial collected and
\* one sub-query still running each; the partials differ.
C21_Witness ==
  /\ pc["r1"] = "dispatch" /\ pc["r2"] = "dispatch"
  /\ Len(all_topk_results["r1"]) = 1 /\ Len(all_topk_results["r2"]) = 1
  /\ Cardinality(Running("r1")) = 1 /\ Cardinality(Running("r2")) = 1
  /\ Len(all_topk_results["r1"][1].topk_query_result[1]) = 1
  /\ Len(all_topk_results["r2"][1].topk_query_result[1]) = 2

====
